---- MODULE Spec2Model ----
(***************************************************************************)
(* A state-machine model of the repository's operational core:            *)
(*   - services/kong/init-kong.sh, the gateway bootstrapper, run against   *)
(*     a model of the Kong Admin API (SpecKong);                           *)
(*   - bin/start.sh, bin/stop.sh and bin/restart.sh, the lifecycle         *)
(*     scripts (SpecLifecycle);                                            *)
(*   - the frontend's token handling: request issue, the upload mutation,  *)
(*     the query functions and handleApiError (SpecFrontend).              *)
(***************************************************************************)
EXTENDS Integers, Sequences, FiniteSets, TLC

VARIABLES
  \* ---- the Kong control plane (Admin API state)
  kServices,      \* set of [name, url]
  kRoutes,        \* set of [id, service, name, rules]
  kPlugins,       \* set of [service, name, config]
  \* ---- init-kong.sh
  KENV,           \* ${ENVIRONMENT} as init-kong.sh sees it
  kpc,            \* "ready" | "lookup" | "create" | "done"
  opIdx,          \* index of the current call of the configuration sequence
  attempt,        \* readiness loop counter
  kReady,         \* outcome of the readiness loop: "ready" | "timeout" | "pending"
  run,            \* number of the current bootstrapper run
  call,           \* the current / last create_*_if_not_exists call
  errs,           \* failure lines printed by the current run
  before,         \* control-plane state when the current run started
  snap,           \* control-plane state when run 1 ended
  createdRoutes,  \* <<service, route_name>> for which a call created a route
  kongUp,         \* the control plane answers and reports its database reachable
  abnormal,       \* some request of a run was not answered normally
  faults,         \* transient request failures injected so far
  others,         \* entities so far created by somebody else
  \* ---- the lifecycle scripts (one invocation)
  script,         \* "start" | "stop" | "restart"
  args,           \* the positional parameters "$@"
  envFiles,       \* the environment files that exist in the project directory
  prevUp,         \* containers of the project's stack from before this invocation run
  airflowUp,      \* among them, those of compose.airflow.yml run
  STACK_NAME,     \* ${STACK_NAME} once the environment file is exported, "" if unset
  containers,     \* the containers docker ps -a lists on the host
  spc,            \* position in the script
  ENVIRONMENT,    \* ${ENVIRONMENT}
  WITH_AIRFLOW,   \* ${WITH_AIRFLOW}
  CLEAN_VOLUMES,  \* ${CLEAN_VOLUMES}
  SERVICE_NAME,   \* ${SERVICE_NAME}
  NO_BUILD,       \* ${NO_BUILD}
  loaded,         \* the environment file's variables were exported
  waitI,          \* start.sh's loop variable i of the gateway wait
  cmds,           \* the orchestrator commands issued so far, in order
  out,            \* the messages printed so far
  exitCode,       \* the exit status, once spc = "exited"
  \* ---- the frontend
  token,          \* localStorage access_token, NoToken when absent
  location,       \* window.location / the router's path
  logins,         \* successful logins so far
  reqs,           \* the requests: slot -> record
  effects         \* what the mutation callbacks run by the last step did

kvars == <<kServices, kRoutes, kPlugins, KENV, kpc, opIdx, attempt, kReady, run,
           call, errs, before, snap, createdRoutes, kongUp, abnormal, faults, others>>

lvars == <<script, args, envFiles, STACK_NAME, containers, prevUp, airflowUp, spc, ENVIRONMENT, WITH_AIRFLOW, CLEAN_VOLUMES,
           SERVICE_NAME, NO_BUILD, loaded, waitI, cmds, out, exitCode>>

fvars == <<token, location, logins, reqs, effects>>

vars == <<kvars, lvars, fvars>>

\* ---------------------------------------------------------------- bounds
MaxRuns == 2
MaxFaults == 1
MaxOther == 1

\* ------------------------------------------------------------- constants
max_attempts == 60

NoName == "<none>"
NoCall == [fn |-> "none", service |-> NoName, name |-> NoName, found |-> FALSE,
           issued |-> FALSE, resp |-> {}, rc |-> 0, done |-> TRUE,
           prior |-> FALSE]

\* ------------------------------------------------- the declared topology
\* ${STACK_NAME}- is written S- ; ${DOMAIN} is written D.
BackendUrl == "http://backend:8000/api"
CorsConfig == "origins=*;methods=GET,POST,PUT,DELETE,OPTIONS,PATCH;credentials=true;max_age=3600"
StaleCorsConfig == "origins=http://old.example"

FRONTEND_URL(env) ==
  IF env = "local" THEN "http://frontend:5173" ELSE "http://frontend:80"

Svc(n, u) == [fn |-> "service", service |-> n, name |-> n, arg |-> u]
Rt(s, n, rules) == [fn |-> "route", service |-> s, name |-> n, arg |-> rules]
Plg(s, n, c) == [fn |-> "plugin", service |-> s, name |-> n, arg |-> c]

\* The calls of the main configuration sequence, in order.
ConfigSequence(env) ==
  <<Svc("S-backend", BackendUrl)>>
  \o (IF env = "local"
      THEN <<Rt("S-backend", "S-backend-route-path", "paths=/api;strip_path=true")>>
      ELSE <<>>)
  \o <<Rt("S-backend", "S-backend-route-host", "hosts=api.D;paths=/api;strip_path=true"),
       Plg("S-backend", "cors", CorsConfig),
       Svc("S-frontend", FRONTEND_URL(env))>>
  \o (IF env = "local"
      THEN <<Rt("S-frontend", "S-frontend-route-path",
                "paths=/dashboard,/login,/signup,/;strip_path=false")>>
      ELSE <<>>)
  \o <<Rt("S-frontend", "S-frontend-route-host", "hosts=dashboard.D;paths=/"),
       Svc("S-adminer", "http://adminer:8080"),
       Rt("S-adminer", "S-adminer-route", "hosts=adminer.D")>>

CurOp == ConfigSequence(KENV)[opIdx]

\* ------------------------------------------------------ Kong Admin API
\* A response body is modelled by the set of the substrings the script greps
\* for that occur in it: "id" for "id", "UNIQUE violation", "name:<p>" for
\* "name":"<p>", "message" for an error body; the empty set is an empty body.
ServiceExistsIn(services, n) == \E s \in services : s.name = n

\* GET /services/<name>
KongGetService(n) ==
  IF ServiceExistsIn(kServices, n) THEN {"id"} ELSE {"message"}

\* POST /services  name=<n> url=<u>
KongPostService(n, u) ==
  IF ServiceExistsIn(kServices, n)
  THEN [resp |-> {"message", "UNIQUE violation"}, services |-> kServices]
  ELSE [resp |-> {"id"}, services |-> kServices \cup {[name |-> n, url |-> u]}]

\* GET /services/<s>/routes/<name>
KongGetRoute(s, n) ==
  IF \E r \in kRoutes : r.service = s /\ r.name = n THEN {"id"} ELSE {"message"}

\* POST /services/<s>/routes with the form fields of body
KongPostRoute(s, body) ==
  IF ~ServiceExistsIn(kServices, s)
  THEN [resp |-> {"message"}, routes |-> kRoutes]
  ELSE IF body.name # NoName /\ \E r \in kRoutes : r.name = body.name
  THEN [resp |-> {"message", "UNIQUE violation"}, routes |-> kRoutes]
  ELSE [resp |-> {"id"},
        routes |-> kRoutes \cup {[id |-> Cardinality(kRoutes) + 1, service |-> s,
                                   name |-> body.name, rules |-> body.rules]}]

\* GET /services/<s>/plugins
KongGetPlugins(s) ==
  IF ServiceExistsIn(kServices, s)
  THEN {"data"} \cup {"name:" \o p.name : p \in {q \in kPlugins : q.service = s}}
  ELSE {"message"}

\* POST /services/<s>/plugins  name=<n> config...
KongPostPlugin(s, n, c) ==
  IF ~ServiceExistsIn(kServices, s)
  THEN [resp |-> {"message"}, plugins |-> kPlugins]
  ELSE IF \E p \in kPlugins : p.service = s /\ p.name = n
  THEN [resp |-> {"message", "UNIQUE violation"}, plugins |-> kPlugins]
  ELSE [resp |-> {"id"},
        plugins |-> kPlugins \cup {[service |-> s, name |-> n, config |-> c]}]

\* echo "${response}" | grep -q <pattern>
GrepQ(resp, pattern) == pattern \in resp

\* A request may fail to be answered (curl -s prints nothing): bounded.
FaultChoices == IF faults < MaxFaults THEN {FALSE, TRUE} ELSE {FALSE}

Kong == [services |-> kServices, routes |-> kRoutes, plugins |-> kPlugins]

\* ------------------------------------------------------- init-kong.sh
\* (variant) a uniqueness conflict reported as a failure
CreateResultStrict(resp) ==
  IF GrepQ(resp, "id") THEN 0 ELSE 1

\* The result inspection after a service or route POST.
CreateResult(resp) ==
  IF GrepQ(resp, "id") THEN 0
  ELSE IF GrepQ(resp, "UNIQUE violation") THEN 0
  ELSE 1

\* The result inspection after a plugin POST: a failure is logged and skipped.
PluginCreateResult(resp) == 0

\* (variant) a pattern Kong's compact JSON never contains
PluginListedSpaced(resp, plugin_name) == GrepQ(resp, "name: " \o plugin_name)

\* echo "${plugins_response}" | grep -q "\"name\":\"${plugin_name}\""
PluginListed(resp, plugin_name) == GrepQ(resp, "name:" \o plugin_name)

\* (variant) PUT /services/<name>: create or replace
ServiceUpsertRequest(n, u) ==
  [resp |-> {"id"},
   services |-> {s \in kServices : s.name # n} \cup {[name |-> n, url |-> u]}]

\* curl -s -X POST ${KONG_ADMIN_URL}/services --data name=... --data url=...
ServiceCreateRequest(n, u) == KongPostService(n, u)

\* The form fields create_route_if_not_exists sends: the elements of
\* route_data, each as --data; route_name is not among them.
RouteCreateBody(route_name, route_data) == [name |-> NoName, rules |-> route_data]

\* What the script receives for a request whose normal answer is r.
Answer(fault, r) == IF fault \/ ~kongUp THEN {} ELSE r

\* (variant) set -e: a failing command ends the script
errexit_on == TRUE

\* set +e
errexit == FALSE

\* Control passes to the next call of the configuration sequence, or the run ends.
Advance ==
  IF opIdx < Len(ConfigSequence(KENV))
  THEN /\ opIdx' = opIdx + 1
       /\ kpc' = "lookup"
       /\ snap' = snap
  ELSE /\ opIdx' = opIdx
       /\ kpc' = "done"
       /\ snap' = IF run = 1 THEN Kong' ELSE snap

\* A create_*_if_not_exists call returns rc to the top level of the script.
Return(rc) ==
  IF errexit /\ rc # 0
  THEN kpc' = "done" /\ UNCHANGED <<opIdx, snap>>
  ELSE Advance

StartCall(found) ==
  [fn |-> CurOp.fn, service |-> CurOp.service, name |-> CurOp.name, found |-> found,
   issued |-> FALSE, resp |-> {}, rc |-> 0, done |-> found,
   prior |-> <<CurOp.service, CurOp.name>> \in createdRoutes]

\* (variant) the loop condition lets one more iteration through
AttemptsLeftInclusive(a) == a <= max_attempts

\* while [ $attempt -lt $max_attempts ]
AttemptsLeft(a) == a < max_attempts

\* (variant) the return ends the script, as it would in a sourced script
ReturnHonoured(next) == "done"

\* "return 0" at the top level of a script run with bash: the builtin fails
\* ("can only return from a function or sourced script") and, under set +e,
\* control goes on to what follows.
ReturnOutsideFunction(next) == next

\* The readiness loop: one poll of /status. attempt is not read after the
\* loop and is forgotten when the loop is left.
ReadinessPoll ==
  /\ kpc = "ready"
  /\ IF kongUp
     THEN /\ kReady' = "ready"
          /\ attempt' = 0
          /\ kpc' = "lookup"
     ELSE \* At max_attempts the error is printed and "return 0" is tried; the
          \* loop condition is what ends the loop, and the configuration starts.
          LET a == attempt + 1
              next == IF AttemptsLeft(a) THEN "ready" ELSE "lookup"
              to == IF a = max_attempts THEN ReturnOutsideFunction(next) ELSE next
          IN /\ kReady' = IF a = max_attempts THEN "timeout" ELSE kReady
             /\ kpc' = to
             /\ attempt' = IF to = "ready" THEN a ELSE 0
  /\ UNCHANGED <<lvars, fvars, kServices, kRoutes, kPlugins, KENV, opIdx, run, call, errs, before,
                 snap, createdRoutes, kongUp, abnormal, faults, others>>

\* create_service_if_not_exists: service_exists and the early return.
ServiceLookup ==
  /\ kpc = "lookup" /\ CurOp.fn = "service"
  /\ \E fault \in FaultChoices :
       LET resp == Answer(fault, KongGetService(CurOp.name))
           found == GrepQ(resp, "id")
       IN /\ call' = StartCall(found)
          /\ faults' = IF fault THEN faults + 1 ELSE faults
          /\ abnormal' = (abnormal \/ fault \/ ~kongUp)
          /\ UNCHANGED <<kServices, kRoutes, kPlugins>>
          /\ IF found THEN Advance ELSE kpc' = "create" /\ UNCHANGED <<opIdx, snap>>
  /\ UNCHANGED <<lvars, fvars, KENV, attempt, kReady, run, errs, before, createdRoutes, kongUp, others>>

\* create_service_if_not_exists: the POST and the inspection of its response.
ServiceCreate ==
  /\ kpc = "create" /\ CurOp.fn = "service"
  /\ \E fault \in FaultChoices :
       LET normal == ServiceCreateRequest(CurOp.name, CurOp.arg)
           resp == Answer(fault, normal.resp)
           rc == CreateResult(resp)
       IN /\ kServices' = IF fault \/ ~kongUp THEN kServices ELSE normal.services
          /\ call' = [call EXCEPT !.issued = TRUE, !.resp = resp, !.rc = rc, !.done = TRUE]
          /\ errs' = IF rc = 0 THEN errs ELSE errs \cup {CurOp.name}
          /\ faults' = IF fault THEN faults + 1 ELSE faults
          /\ abnormal' = (abnormal \/ fault \/ ~kongUp)
          /\ UNCHANGED <<kRoutes, kPlugins>>
          /\ Return(rc)
  /\ UNCHANGED <<lvars, fvars, KENV, attempt, kReady, run, before, createdRoutes, kongUp, others>>

\* create_route_if_not_exists: the by-name lookup and the early return.
RouteLookup ==
  /\ kpc = "lookup" /\ CurOp.fn = "route"
  /\ \E fault \in FaultChoices :
       LET resp == Answer(fault, KongGetRoute(CurOp.service, CurOp.name))
           found == GrepQ(resp, "id")
       IN /\ call' = StartCall(found)
          /\ faults' = IF fault THEN faults + 1 ELSE faults
          /\ abnormal' = (abnormal \/ fault \/ ~kongUp)
          /\ UNCHANGED <<kServices, kRoutes, kPlugins>>
          /\ IF found THEN Advance ELSE kpc' = "create" /\ UNCHANGED <<opIdx, snap>>
  /\ UNCHANGED <<lvars, fvars, KENV, attempt, kReady, run, errs, before, createdRoutes, kongUp, others>>

\* create_route_if_not_exists: the POST and the inspection of its response.
RouteCreate ==
  /\ kpc = "create" /\ CurOp.fn = "route"
  /\ \E fault \in FaultChoices :
       LET normal == KongPostRoute(CurOp.service, RouteCreateBody(CurOp.name, CurOp.arg))
           resp == Answer(fault, normal.resp)
           rc == CreateResult(resp)
       IN /\ kRoutes' = IF fault \/ ~kongUp THEN kRoutes ELSE normal.routes
          /\ call' = [call EXCEPT !.issued = TRUE, !.resp = resp, !.rc = rc, !.done = TRUE]
          /\ errs' = IF rc = 0 THEN errs ELSE errs \cup {CurOp.name}
          /\ createdRoutes' = IF GrepQ(resp, "id")
                               THEN createdRoutes \cup {<<CurOp.service, CurOp.name>>}
                               ELSE createdRoutes
          /\ faults' = IF fault THEN faults + 1 ELSE faults
          /\ abnormal' = (abnormal \/ fault \/ ~kongUp)
          /\ UNCHANGED <<kServices, kPlugins>>
          /\ Return(rc)
  /\ UNCHANGED <<lvars, fvars, KENV, attempt, kReady, run, before, kongUp, others>>

\* create_plugin_if_not_exists: the plugin list check and the early return.
PluginLookup ==
  /\ kpc = "lookup" /\ CurOp.fn = "plugin"
  /\ \E fault \in FaultChoices :
       LET resp == Answer(fault, KongGetPlugins(CurOp.service))
           found == PluginListed(resp, CurOp.name)
       IN /\ call' = StartCall(found)
          /\ faults' = IF fault THEN faults + 1 ELSE faults
          /\ abnormal' = (abnormal \/ fault \/ ~kongUp)
          /\ UNCHANGED <<kServices, kRoutes, kPlugins>>
          /\ IF found THEN Advance ELSE kpc' = "create" /\ UNCHANGED <<opIdx, snap>>
  /\ UNCHANGED <<lvars, fvars, KENV, attempt, kReady, run, errs, before, createdRoutes, kongUp, others>>

\* create_plugin_if_not_exists: the POST and the inspection of its response.
PluginCreate ==
  /\ kpc = "create" /\ CurOp.fn = "plugin"
  /\ \E fault \in FaultChoices :
       LET normal == KongPostPlugin(CurOp.service, CurOp.name, CurOp.arg)
           resp == Answer(fault, normal.resp)
           rc == PluginCreateResult(resp)
       IN /\ kPlugins' = IF fault \/ ~kongUp THEN kPlugins ELSE normal.plugins
          /\ call' = [call EXCEPT !.issued = TRUE, !.resp = resp, !.rc = rc, !.done = TRUE]
          /\ errs' = IF GrepQ(resp, "id") THEN errs ELSE errs \cup {CurOp.name}
          /\ faults' = IF fault THEN faults + 1 ELSE faults
          /\ abnormal' = (abnormal \/ fault \/ ~kongUp)
          /\ UNCHANGED <<kServices, kRoutes>>
          /\ Return(rc)
  /\ UNCHANGED <<lvars, fvars, KENV, attempt, kReady, run, before, createdRoutes, kongUp, others>>

\* The bootstrapper is invoked again (a later start of the stack).
RunAgain ==
  /\ kpc = "done" /\ run < MaxRuns
  /\ run' = run + 1
  /\ kpc' = "ready"
  /\ opIdx' = 1
  /\ attempt' = 0
  /\ kReady' = "pending"
  /\ call' = NoCall
  /\ errs' = {}
  /\ before' = Kong
  /\ UNCHANGED <<lvars, fvars, kServices, kRoutes, kPlugins, KENV, snap, createdRoutes, kongUp,
                 abnormal, faults, others>>

\* ------------------------------------------------- the environment of Kong
\* The control plane finishes starting.
KongComesUp ==
  /\ ~kongUp /\ kpc # "done"
  /\ kongUp' = TRUE
  /\ UNCHANGED <<lvars, fvars, kServices, kRoutes, kPlugins, KENV, kpc, opIdx, attempt, kReady, run,
                 call, errs, before, snap, createdRoutes, abnormal, faults, others>>

\* Entities somebody else (an operator through the admin UI, a concurrent
\* bootstrapper) may create through the same Admin API.
OtherServices == {[name |-> "S-backend", url |-> "http://backend:8000"],
                  [name |-> "S-frontend", url |-> "http://frontend:80"]}
OtherPlugins == {[service |-> "S-backend", name |-> "cors", config |-> StaleCorsConfig]}
OtherRoutes == {[name |-> "S-backend-route-host", rules |-> "hosts=old.D"]}

OtherCreator ==
  /\ others < MaxOther /\ kongUp /\ kpc # "done"
  /\ others' = others + 1
  /\ \/ \E s \in OtherServices :
          /\ kServices' = KongPostService(s.name, s.url).services
          /\ kServices' # kServices
          /\ UNCHANGED <<kRoutes, kPlugins>>
     \/ \E p \in OtherPlugins :
          /\ kPlugins' = KongPostPlugin(p.service, p.name, p.config).plugins
          /\ kPlugins' # kPlugins
          /\ UNCHANGED <<kServices, kRoutes>>
     \/ \E r \in OtherRoutes :
          /\ kRoutes' = KongPostRoute("S-backend", r).routes
          /\ kRoutes' # kRoutes
          /\ UNCHANGED <<kServices, kPlugins>>
  /\ UNCHANGED <<lvars, fvars, KENV, kpc, opIdx, attempt, kReady, run, call, errs, before, snap,
                 createdRoutes, kongUp, abnormal, faults>>

\* Control-plane states the bootstrapper may be started against: empty, or
\* holding a service, a named route and a plugin created earlier with other
\* settings.
InitialKongs ==
  {[services |-> {}, routes |-> {}, plugins |-> {}],
   [services |-> {[name |-> "S-backend", url |-> "http://backend:8000"]},
    routes |-> {[id |-> 1, service |-> "S-backend", name |-> "S-backend-route-host",
                 rules |-> "hosts=old.D"]},
    plugins |-> OtherPlugins]}

InitKong ==
  /\ \E k \in InitialKongs :
       /\ kServices = k.services
       /\ kRoutes = k.routes
       /\ kPlugins = k.plugins
       /\ before = k
  /\ KENV \in {"local", "production"}
  /\ kongUp \in BOOLEAN
  /\ kpc = "ready"
  /\ opIdx = 1
  /\ attempt = 0
  /\ kReady = "pending"
  /\ run = 1
  /\ call = NoCall
  /\ errs = {}
  /\ snap = [services |-> {}, routes |-> {}, plugins |-> {}]
  /\ createdRoutes = {}
  /\ abnormal = FALSE
  /\ faults = 0
  /\ others = 0

\* ------------------------------------------------------------- frontend
NoToken == "<no token>"
\* status?: number, when undefined
UndefinedStatus == 0
Undefined == "<undefined>"
NoError == [status |-> UndefinedStatus, detail |-> Undefined, message |-> Undefined]
\* Request options: the method, the headers as <<name, value>> pairs, and
\* the credentials mode.
NoOptions == [method |-> "", headers |-> {}, credentials |-> ""]
FreeSlot == [kind |-> "none", st |-> "free", sent |-> NoToken, base |-> NoOptions,
             options |-> NoOptions, status |-> UndefinedStatus,
             err |-> NoError, data |-> "none", failures |-> 0, clears |-> 0, navs |-> 0]

\* A request that is over: of what it was, what it was sent with and what it
\* threw, only the response status and the handlers' effects are kept.
Finished(req, status) ==
  [req EXCEPT !.kind = "none", !.st = "done", !.status = status, !.sent = NoToken,
              !.base = NoOptions, !.options = NoOptions, !.err = NoError, !.failures = 0]

\* No page of the frontend is open.
FrontendIdle ==
  /\ token = NoToken
  /\ location = "/login"
  /\ logins = 0
  /\ reqs = <<>>
  /\ effects = {}

\* The lifecycle scripts are not running.
LifecycleIdle ==
  /\ script = "none"
  /\ args = <<>>
  /\ envFiles = {}
  /\ prevUp = FALSE
  /\ airflowUp = FALSE
  /\ STACK_NAME = ""
  /\ containers = {}
  /\ spc = "exited"
  /\ ENVIRONMENT = ""
  /\ WITH_AIRFLOW = FALSE
  /\ CLEAN_VOLUMES = FALSE
  /\ SERVICE_NAME = ""
  /\ NO_BUILD = FALSE
  /\ loaded = FALSE
  /\ waitI = 0
  /\ cmds = <<>>
  /\ out = {}
  /\ exitCode = 0

NextKong ==
  \/ ReadinessPoll
  \/ ServiceLookup
  \/ ServiceCreate
  \/ RouteLookup
  \/ RouteCreate
  \/ PluginLookup
  \/ PluginCreate
  \/ RunAgain
  \/ KongComesUp
  \/ OtherCreator

InitSpecKong == InitKong /\ LifecycleIdle /\ FrontendIdle

SpecKong == InitSpecKong /\ [][NextKong]_vars

\* C1: with every request of both runs answered normally and nobody else
\* creating entities, the second run ends with exactly the services, routes
\* and plugins the first run ended with, and reports no failure.
C1_SecondRunChangesNothing ==
  (run = 2 /\ kpc = "done" /\ ~abnormal /\ others = 0)
    => (Kong = snap /\ errs = {})

\* C2: once a call of create_route_if_not_exists has created the route of a
\* service and route name, a later call with the same service and route name
\* issues no create request.
C2_RouteKeyedByName ==
  (call.fn = "route" /\ call.prior) => ~call.issued

\* C8: create_service_if_not_exists POSTs exactly when its lookup found no
\* service, and returns 0 exactly when the service was found, or the POST's
\* response holds an id, or it reports a UNIQUE violation; 1 otherwise.
C8_ServiceCreateIfAbsent ==
  (call.fn = "service" /\ call.done)
    => /\ call.issued <=> ~call.found
       /\ call.rc = (IF call.found \/ "id" \in call.resp
                         \/ "UNIQUE violation" \in call.resp
                      THEN 0 ELSE 1)

\* C8 witness: a create lost the race (the service appeared between the
\* lookup and the POST) and the call returned success.
C8_Witness ==
  /\ call.fn = "service" /\ call.done /\ call.issued
  /\ "UNIQUE violation" \in call.resp
  /\ call.rc = 0
  /\ ~abnormal

\* C9: when the plugin list the call obtains holds a plugin of the declared
\* name, whatever its configuration, the call issues no POST, leaves every
\* plugin as it is and returns 0.
C9_ExistingPluginUntouched ==
  [][(/\ kpc = "lookup" /\ CurOp.fn = "plugin"
      /\ call' # call /\ kongUp /\ faults' = faults
      /\ \E p \in kPlugins : p.service = CurOp.service /\ p.name = CurOp.name)
     => (/\ call'.done /\ ~call'.issued /\ call'.rc = 0
         /\ kpc' # "create"
         /\ kPlugins' = kPlugins)]_vars

\* C9 witness: the call returned at the check although the existing cors
\* plugin carries another configuration than the declared one.
C9_Witness ==
  /\ call.fn = "plugin" /\ call.found /\ call.done /\ ~call.issued
  /\ [service |-> "S-backend", name |-> "cors", config |-> StaleCorsConfig] \in kPlugins
  /\ CorsConfig # StaleCorsConfig

\* C10: every service, route and plugin the control plane held when a run
\* started is still there, with the same fields, at every point of the run.
C10_NothingUpdatedOrDeleted ==
  /\ before.services \subseteq kServices
  /\ before.routes \subseteq kRoutes
  /\ before.plugins \subseteq kPlugins

\* C10 witness: a run ended that met a backend service with another URL and
\* a cors plugin with another configuration than the declared ones, and
\* created the services that were missing.
C10_Witness ==
  /\ kpc = "done"
  /\ [name |-> "S-backend", url |-> "http://backend:8000"] \in before.services
  /\ [service |-> "S-backend", name |-> "cors", config |-> StaleCorsConfig] \in before.plugins
  /\ Cardinality(kServices) > Cardinality(before.services)
  /\ BackendUrl # "http://backend:8000"

\* ================================================= the lifecycle scripts
AirflowFlags == {"--with-airflow", "-a"}
CleanFlags == {"--clean", "-c"}
Environments == {"dev", "staging", "prod"}

\* $n, empty when the parameter is not given
Arg(n) == IF n <= Len(args) THEN args[n] ELSE ""

\* [[ "$ENVIRONMENT" =~ ^(dev|staging|prod)$ ]]
ValidEnvironment(e) == e \in Environments

\* case $ENVIRONMENT in ... ENV_FILE=...
ENV_FILE(e) == ".env." \o e
\* case $ENVIRONMENT in ... COMPOSE_FILE=...
COMPOSE_FILE(e) == "compose." \o e \o ".yml"

\* COMPOSE_FILES of start.sh and stop.sh: the -f list, in order
COMPOSE_FILES(e, airflow) ==
  <<"compose.yml", "compose.kong.yml", COMPOSE_FILE(e)>>
  \o (IF airflow THEN <<"compose.airflow.yml">> ELSE <<>>)

\* A command issued: its words, its service argument, and whether it failed
\* under set -e and so ended the script.
\* COMPOSE_FILES of restart.sh
RestartComposeFiles(e) == <<"compose.yml", "compose.kong.yml", COMPOSE_FILE(e)>>

\* The commands that are not docker compose $COMPOSE_FILES ...
PlainCommands == {"docker ps -a", "docker rm -f", "init-kong.sh"}

\* The -f list a command is issued with: $COMPOSE_FILES as it then is.
FilesOf(c) ==
  IF c \in PlainCommands THEN <<>>
  ELSE IF script = "restart" THEN RestartComposeFiles(ENVIRONMENT)
  ELSE COMPOSE_FILES(ENVIRONMENT, WITH_AIRFLOW)

Cmd(c, a) == [c |-> c, a |-> a, files |-> FilesOf(c), fatal |-> FALSE, ok |-> TRUE]
\* A command that failed with its failure ignored (|| true).
CmdIgnored(c, a) == [Cmd(c, a) EXCEPT !.ok = FALSE]
\* A command whose failure ends the script (set -e).
CmdFatal(c, a) == [Cmd(c, a) EXCEPT !.ok = FALSE, !.fatal = TRUE]
Issue(c, a) == cmds' = Append(cmds, Cmd(c, a))
Issued(c) == \E k \in 1..Len(cmds) : cmds[k].c = c

\* The exit statuses a failing orchestrator command may have.
DockerFailCodes == {1, 125}

Exit(code) == spc' = "exited" /\ exitCode' = code
Say(m) == out' = out \cup {m}

\* A command whose failure set -e turns into the script's exit.
RunOrDie(c, a, next) ==
  \/ Issue(c, a) /\ spc' = next /\ UNCHANGED exitCode
  \/ \E code \in DockerFailCodes :
       /\ cmds' = Append(cmds, CmdFatal(c, a))
       /\ Exit(code)

\* The last such command of a script: the script ends with status 0 after it.
RunLastOrDie(c, a) ==
  \/ Issue(c, a) /\ Exit(0)
  \/ \E code \in DockerFailCodes :
       /\ cmds' = Append(cmds, CmdFatal(c, a))
       /\ Exit(code)

\* ---------------------------------------------------------------- start.sh
\* (variant) an unknown token falls back to the default environment
StartEnvironmentDefaulting(a1, a2) ==
  IF a1 \in Environments THEN a1 ELSE "dev"

\* ENVIRONMENT after the argument parsing of start.sh
StartEnvironment(a1, a2) ==
  IF a2 \in AirflowFlags THEN (IF a1 = "" THEN "dev" ELSE a1)
  ELSE IF a1 \in AirflowFlags THEN "dev"
  ELSE IF a1 = "" THEN "dev" ELSE a1

\* WITH_AIRFLOW after the argument parsing of start.sh
StartWithAirflow(a1, a2) == a2 \in AirflowFlags \/ a1 \in AirflowFlags

\* Argument parsing and validation.
StartParse ==
  /\ script = "start" /\ spc = "parse"
  /\ ENVIRONMENT' = StartEnvironment(Arg(1), Arg(2))
  /\ WITH_AIRFLOW' = StartWithAirflow(Arg(1), Arg(2))
  /\ IF ValidEnvironment(ENVIRONMENT')
     THEN spc' = "envfile" /\ UNCHANGED <<out, exitCode>>
     ELSE Say(<<"invalid-environment-usage", ENVIRONMENT'>>) /\ Exit(1)
  /\ UNCHANGED <<kvars, fvars, script, args, envFiles, STACK_NAME, containers, prevUp, airflowUp, CLEAN_VOLUMES, SERVICE_NAME, NO_BUILD,
                 loaded, waitI, cmds>>

\* (variant) the environment file is not checked before it is loaded
StartEnvFileUnchecked ==
  /\ script = "start" /\ spc = "envfile"
  /\ spc' = "load"
  /\ UNCHANGED <<kvars, fvars, script, args, envFiles, STACK_NAME, containers, prevUp, airflowUp, ENVIRONMENT, WITH_AIRFLOW, CLEAN_VOLUMES,
                 SERVICE_NAME, NO_BUILD, loaded, waitI, cmds, out, exitCode>>

\* The environment file check.
StartEnvFile ==
  /\ script = "start" /\ spc = "envfile"
  /\ IF ENV_FILE(ENVIRONMENT) \in envFiles
     THEN spc' = "load" /\ UNCHANGED <<out, exitCode>>
     ELSE Say(<<"env-file-missing", ENV_FILE(ENVIRONMENT)>>) /\ Exit(1)
  /\ UNCHANGED <<kvars, fvars, script, args, envFiles, STACK_NAME, containers, prevUp, airflowUp, ENVIRONMENT, WITH_AIRFLOW, CLEAN_VOLUMES,
                 SERVICE_NAME, NO_BUILD, loaded, waitI, cmds>>

\* export $(grep ... "$ENV_FILE" | xargs) and the compose file list.
StartLoadEnv ==
  /\ script = "start" /\ spc = "load"
  /\ loaded' = TRUE
  /\ spc' = "existing"
  /\ UNCHANGED <<kvars, fvars, script, args, envFiles, STACK_NAME, containers, prevUp, airflowUp, ENVIRONMENT, WITH_AIRFLOW, CLEAN_VOLUMES,
                 SERVICE_NAME, NO_BUILD, waitI, cmds, out, exitCode>>

\* (variant) the listed stack is announced as stopped but no down is issued
StartStopExistingNoDown ==
  /\ script = "start" /\ spc = "existing"
  /\ \E listed \in (IF prevUp THEN BOOLEAN ELSE {FALSE}) :
       /\ cmds' = Append(cmds, Cmd("compose ps -q", ""))
       /\ IF listed THEN Say(<<"stopping-existing", "">>) ELSE UNCHANGED out
  /\ spc' = "cleanup"
  /\ UNCHANGED <<kvars, fvars, script, args, envFiles, STACK_NAME, containers, prevUp, airflowUp, ENVIRONMENT, WITH_AIRFLOW,
                 CLEAN_VOLUMES, SERVICE_NAME, NO_BUILD, loaded, waitI, exitCode>>

\* Stop the existing stack when compose ps -q lists a container. A ps that
\* fails prints nothing (2>/dev/null), and a failure of down is ignored
\* (2>/dev/null || true).
StartStopExisting ==
  /\ script = "start" /\ spc = "existing"
  /\ \E listed \in (IF prevUp THEN BOOLEAN ELSE {FALSE}), downOk \in BOOLEAN :
       IF listed
       THEN /\ cmds' = cmds \o <<Cmd("compose ps -q", ""),
                                 IF downOk THEN Cmd("compose down --remove-orphans", "")
                                 ELSE CmdIgnored("compose down --remove-orphans", "")>>
            /\ prevUp' = ~downOk
            /\ Say(<<"stopping-existing", "">>)
       ELSE /\ downOk
            /\ cmds' = Append(cmds, Cmd("compose ps -q", ""))
            /\ UNCHANGED <<prevUp, out>>
  /\ spc' = "cleanup"
  /\ UNCHANGED <<kvars, fvars, script, args, envFiles, STACK_NAME, containers, airflowUp, ENVIRONMENT, WITH_AIRFLOW, CLEAN_VOLUMES,
                 SERVICE_NAME, NO_BUILD, loaded, waitI, exitCode>>

\* A container: its name in parts, the compose project it belongs to ("this"
\* is the project start.sh runs in) and the first word of its status.
Container(name, project, status) == [name |-> name, project |-> project, status |-> status]

\* The containers a host may hold besides the running stack.
HostContainers ==
  {Container(<<"S", "-backend-1">>, "this", "Exited"),
   Container(<<"S", "-prestart-1">>, "this", "Up"),
   Container(<<"other", "-db-1">>, "other", "Exited"),
   Container(<<"other", "-web-1">>, "other", "Up"),
   Container(<<"S", "-v2", "-db-1">>, "other", "Created")}

\* The leftovers of an earlier run of this project.
Leftovers == {c \in HostContainers : c.project = "this"}

\* docker ps -a --filter "name=${STACK_NAME}": the name contains the value,
\* which every name does when the value is empty.
NameFilter(c, stack) == stack = "" \/ \E k \in DOMAIN c.name : c.name[k] = stack

\* grep -E "Created|Exited" on the "{{.ID}} {{.Status}}" line
GrepCreatedOrExited(c) == c.status \in {"Created", "Exited"}

\* The containers whose ids reach xargs -r docker rm -f.
CleanupSelection(cs, stack) == {c \in cs : NameFilter(c, stack) /\ GrepCreatedOrExited(c)}

\* Remove leftover containers: docker ps -a ... | xargs -r docker rm -f || true
StartCleanup ==
  /\ script = "start" /\ spc = "cleanup"
  /\ LET leftovers == CleanupSelection(containers, STACK_NAME)
     IN /\ cmds' = IF leftovers # {}
                   THEN cmds \o <<Cmd("docker ps -a", ""), Cmd("docker rm -f", "")>>
                   ELSE Append(cmds, Cmd("docker ps -a", ""))
        /\ containers' = containers \ leftovers
  /\ spc' = "up"
  /\ UNCHANGED <<kvars, fvars, script, args, envFiles, STACK_NAME, prevUp, airflowUp, ENVIRONMENT, WITH_AIRFLOW, CLEAN_VOLUMES,
                 SERVICE_NAME, NO_BUILD, loaded, waitI, out, exitCode>>

\* docker compose $COMPOSE_FILES up -d --build, under set -e
StartUp ==
  /\ script = "start" /\ spc = "up"
  /\ RunOrDie("compose up -d --build", "", "kongcheck")
  /\ UNCHANGED <<kvars, fvars, script, args, envFiles, STACK_NAME, containers, prevUp, airflowUp, ENVIRONMENT, WITH_AIRFLOW, CLEAN_VOLUMES,
                 SERVICE_NAME, NO_BUILD, loaded, waitI, out>>

\* if docker compose ps kong | grep -q "Up"
StartKongCheck ==
  /\ script = "start" /\ spc = "kongcheck"
  /\ Issue("compose ps kong", "")
  /\ \E up \in BOOLEAN :
       IF up THEN spc' = "kongwait" /\ waitI' = 1 /\ UNCHANGED out
       ELSE spc' = "status" /\ UNCHANGED waitI /\ Say(<<"kong-not-started", "">>)
  /\ UNCHANGED <<kvars, fvars, script, args, envFiles, STACK_NAME, containers, prevUp, airflowUp, ENVIRONMENT, WITH_AIRFLOW, CLEAN_VOLUMES,
                 SERVICE_NAME, NO_BUILD, loaded, exitCode>>

\* (variant) the bootstrapper is called without waiting for the gateway
StartKongWaitSkipped ==
  /\ script = "start" /\ spc = "kongwait"
  /\ spc' = "konginit" /\ waitI' = 0
  /\ UNCHANGED <<kvars, fvars, script, args, envFiles, STACK_NAME, containers, prevUp, airflowUp, ENVIRONMENT, WITH_AIRFLOW,
                 CLEAN_VOLUMES, SERVICE_NAME, NO_BUILD, loaded, cmds, out, exitCode>>

\* One iteration of for i in {1..60}: poll the gateway's /status.
StartKongWait ==
  /\ script = "start" /\ spc = "kongwait"
  /\ IF kongUp
     THEN spc' = "konginit" /\ waitI' = 0 /\ UNCHANGED out
     ELSE IF waitI = max_attempts
     THEN spc' = "konginit" /\ waitI' = 0 /\ Say(<<"kong-wait-timeout", "">>)
     ELSE spc' = spc /\ waitI' = waitI + 1 /\ UNCHANGED out
  /\ UNCHANGED <<kvars, fvars, script, args, envFiles, STACK_NAME, containers, prevUp, airflowUp, ENVIRONMENT, WITH_AIRFLOW, CLEAN_VOLUMES,
                 SERVICE_NAME, NO_BUILD, loaded, cmds, exitCode>>

\* The environments init-kong.sh may find in ${ENVIRONMENT:-local}: the variable
\* reaches it only when the exported environment file sets it.
BootstrapEnvironments == {"local", "production"}

\* bash services/kong/init-kong.sh: the bootstrapper starts.
StartKongInit ==
  /\ script = "start" /\ spc = "konginit"
  /\ Issue("init-kong.sh", "")
  /\ spc' = "kongrun"
  /\ KENV' \in BootstrapEnvironments
  /\ kpc' = "ready"
  /\ opIdx' = 1
  /\ attempt' = 0
  /\ kReady' = "pending"
  /\ call' = NoCall
  /\ errs' = {}
  /\ before' = Kong
  /\ UNCHANGED <<kServices, kRoutes, kPlugins, run, snap, createdRoutes, kongUp, abnormal,
                 faults, others>>
  /\ UNCHANGED <<fvars, script, args, envFiles, STACK_NAME, containers, prevUp, airflowUp, ENVIRONMENT, WITH_AIRFLOW, CLEAN_VOLUMES,
                 SERVICE_NAME, NO_BUILD, loaded, waitI, out, exitCode>>

\* init-kong.sh has ended; `|| echo` swallows its status.
StartKongInitReturns ==
  /\ script = "start" /\ spc = "kongrun" /\ kpc = "done"
  /\ spc' = "status"
  /\ UNCHANGED <<kvars, fvars, script, args, envFiles, STACK_NAME, containers, prevUp, airflowUp, ENVIRONMENT, WITH_AIRFLOW, CLEAN_VOLUMES,
                 SERVICE_NAME, NO_BUILD, loaded, waitI, cmds, out, exitCode>>

\* docker compose $COMPOSE_FILES ps, under set -e, and the closing echos
StartStatus ==
  /\ script = "start" /\ spc = "status"
  /\ RunLastOrDie("compose ps", "")
  /\ UNCHANGED <<kvars, fvars, script, args, envFiles, STACK_NAME, containers, prevUp, airflowUp, ENVIRONMENT, WITH_AIRFLOW, CLEAN_VOLUMES,
                 SERVICE_NAME, NO_BUILD, loaded, waitI, out>>

\* The gateway's control plane finishes starting while start.sh waits.
GatewayComesUp ==
  /\ script = "start" /\ spc = "kongwait" /\ ~kongUp
  /\ kongUp' = TRUE
  /\ UNCHANGED <<kServices, kRoutes, kPlugins, KENV, kpc, opIdx, attempt, kReady, run,
                 call, errs, before, snap, createdRoutes, abnormal, faults, others>>
  /\ UNCHANGED <<lvars, fvars>>

\* ----------------------------------------------------------------- stop.sh
\* (variant) a leading airflow flag is taken as the environment
StopEnvironmentNoFlag(a1) == IF a1 = "" THEN "dev" ELSE a1

\* ENVIRONMENT after the argument parsing of stop.sh
StopEnvironment(a1) ==
  IF a1 = "" THEN "dev"
  ELSE IF a1 \in AirflowFlags THEN "dev"
  ELSE a1

\* for arg in "$@": some argument is one of flags
HasFlag(flags) == \E k \in 1..Len(args) : args[k] \in flags

\* Argument parsing and validation.
StopParse ==
  /\ script = "stop" /\ spc = "parse"
  /\ ENVIRONMENT' = StopEnvironment(Arg(1))
  /\ CLEAN_VOLUMES' = HasFlag(CleanFlags)
  /\ WITH_AIRFLOW' = HasFlag(AirflowFlags)
  /\ IF ValidEnvironment(ENVIRONMENT')
     THEN spc' = "load" /\ UNCHANGED <<out, exitCode>>
     ELSE Say(<<"invalid-environment-usage", ENVIRONMENT'>>) /\ Exit(1)
  /\ UNCHANGED <<kvars, fvars, script, args, envFiles, STACK_NAME, containers, prevUp, airflowUp, SERVICE_NAME, NO_BUILD, loaded, waitI, cmds>>

\* (variant) stop.sh treats a missing environment file as start.sh does
StopLoadEnvStrict ==
  /\ script = "stop" /\ spc = "load"
  /\ IF ENV_FILE(ENVIRONMENT) \in envFiles
     THEN loaded' = TRUE /\ spc' = "down" /\ UNCHANGED <<out, exitCode>>
     ELSE UNCHANGED loaded /\ Say(<<"env-file-missing", ENV_FILE(ENVIRONMENT)>>) /\ Exit(1)
  /\ UNCHANGED <<kvars, fvars, script, args, envFiles, STACK_NAME, containers, prevUp, airflowUp, ENVIRONMENT, WITH_AIRFLOW,
                 CLEAN_VOLUMES, SERVICE_NAME, NO_BUILD, waitI, cmds>>

\* if [ -f "$ENV_FILE" ]; then export ...; fi and the compose file list
StopLoadEnv ==
  /\ script = "stop" /\ spc = "load"
  /\ loaded' = (ENV_FILE(ENVIRONMENT) \in envFiles)
  /\ spc' = "down"
  /\ UNCHANGED <<kvars, fvars, script, args, envFiles, STACK_NAME, containers, prevUp, airflowUp, ENVIRONMENT, WITH_AIRFLOW, CLEAN_VOLUMES,
                 SERVICE_NAME, NO_BUILD, waitI, cmds, out, exitCode>>

\* The containers down leaves running: without --remove-orphans it stops
\* the services of the files it is given and no others.
DownLeavesAirflow(files, up) == up /\ \A k \in DOMAIN files : files[k] # "compose.airflow.yml"

\* docker compose $COMPOSE_FILES down [-v], under set -e
StopDown ==
  /\ script = "stop" /\ spc = "down"
  /\ RunLastOrDie(IF CLEAN_VOLUMES THEN "compose down -v" ELSE "compose down", "")
  /\ prevUp' = IF exitCode' = 0 THEN FALSE ELSE prevUp
  /\ airflowUp' = IF exitCode' = 0
                  THEN DownLeavesAirflow(FilesOf("compose down"), airflowUp)
                  ELSE airflowUp
  /\ UNCHANGED <<kvars, fvars, script, args, envFiles, STACK_NAME, containers, ENVIRONMENT, WITH_AIRFLOW, CLEAN_VOLUMES,
                 SERVICE_NAME, NO_BUILD, loaded, waitI, out>>

\* -------------------------------------------------------------- restart.sh
\* The first parameter names an environment: [[ "$1" =~ ^(dev|staging|prod)$ ]]
RestartEnvGiven == ValidEnvironment(Arg(1))
RestartEnvironment == IF RestartEnvGiven THEN Arg(1) ELSE "dev"
RestartServiceArg == IF RestartEnvGiven THEN Arg(2) ELSE Arg(1)
RestartNoBuildFlag == IF RestartEnvGiven THEN Arg(3) ELSE Arg(2)

\* The services of the resolved compose configuration, per environment.
ComposeServices(e) ==
  {"backend", "frontend", "db", "adminer", "kong", "kong-db", "konga", "prestart"}
  \cup (IF e = "dev" THEN {"mailcatcher", "cypress"} ELSE {})

\* The characters of the names that reach grep.
Chars(w) ==
  CASE w = "backend" -> <<"b", "a", "c", "k", "e", "n", "d">>
    [] w = "frontend" -> <<"f", "r", "o", "n", "t", "e", "n", "d">>
    [] w = "db" -> <<"d", "b">>
    [] w = "adminer" -> <<"a", "d", "m", "i", "n", "e", "r">>
    [] w = "kong" -> <<"k", "o", "n", "g">>
    [] w = "kong-db" -> <<"k", "o", "n", "g", "-", "d", "b">>
    [] w = "kong.db" -> <<"k", "o", "n", "g", ".", "d", "b">>
    [] w = "konga" -> <<"k", "o", "n", "g", "a">>
    [] w = "prestart" -> <<"p", "r", "e", "s", "t", "a", "r", "t">>
    [] w = "mailcatcher" -> <<"m", "a", "i", "l", "c", "a", "t", "c", "h", "e", "r">>
    [] w = "cypress" -> <<"c", "y", "p", "r", "e", "s", "s">>
    [] w = "qa" -> <<"q", "a">>
    [] w = "dev" -> <<"d", "e", "v">>
    [] w = "prod" -> <<"p", "r", "o", "d">>

\* grep "^<pattern>$" on one line, for patterns of literal characters and
\* the metacharacter "." (any one character).
RegexLineMatch(pattern, line) ==
  /\ Len(pattern) = Len(line)
  /\ \A k \in 1..Len(pattern) : pattern[k] = "." \/ pattern[k] = line[k]

\* ... config --services | grep -q "^${SERVICE_NAME}$"
ServiceListed(lines, name) ==
  \E l \in lines : RegexLineMatch(Chars(name), Chars(l))

\* Argument parsing and the service name check.
RestartParse ==
  /\ script = "restart" /\ spc = "parse"
  /\ ENVIRONMENT' = RestartEnvironment
  /\ NO_BUILD' = (RestartServiceArg = "--no-build" \/ RestartNoBuildFlag = "--no-build")
  /\ SERVICE_NAME' = IF RestartServiceArg = "--no-build" THEN "" ELSE RestartServiceArg
  /\ IF SERVICE_NAME' = ""
     THEN Say(<<"service-name-required-usage", "">>) /\ Exit(1)
     ELSE spc' = "load" /\ UNCHANGED <<out, exitCode>>
  /\ UNCHANGED <<kvars, fvars, script, args, envFiles, STACK_NAME, containers, prevUp, airflowUp, WITH_AIRFLOW, CLEAN_VOLUMES, loaded, waitI,
                 cmds>>

\* if [ -f "$ENV_FILE" ]; then export ...; fi and the compose file list
RestartLoadEnv ==
  /\ script = "restart" /\ spc = "load"
  /\ loaded' = (ENV_FILE(ENVIRONMENT) \in envFiles)
  /\ spc' = "validate"
  /\ UNCHANGED <<kvars, fvars, script, args, envFiles, STACK_NAME, containers, prevUp, airflowUp, ENVIRONMENT, WITH_AIRFLOW, CLEAN_VOLUMES,
                 SERVICE_NAME, NO_BUILD, waitI, cmds, out, exitCode>>

\* The service validation, and the list of the configuration's services
\* when it fails (the compose configuration resolves).
RestartValidate ==
  /\ script = "restart" /\ spc = "validate"
  /\ IF ServiceListed(ComposeServices(ENVIRONMENT), SERVICE_NAME)
     THEN /\ Issue("compose config --services", "")
          /\ spc' = "build"
          /\ UNCHANGED <<out, exitCode>>
     ELSE /\ cmds' = cmds \o <<Cmd("compose config --services", ""),
                               Cmd("compose config --services", "")>>
          /\ out' = out \cup {<<"service-unknown", SERVICE_NAME>>}
                        \cup {<<"available-service", l>> : l \in ComposeServices(ENVIRONMENT)}
          /\ Exit(1)
  /\ UNCHANGED <<kvars, fvars, script, args, envFiles, STACK_NAME, containers, prevUp, airflowUp, ENVIRONMENT, WITH_AIRFLOW, CLEAN_VOLUMES,
                 SERVICE_NAME, NO_BUILD, loaded, waitI>>

\* (variant) a failed build is reported and the script goes on
RestartBuildGoesOn ==
  /\ script = "restart" /\ spc = "build"
  /\ IF NO_BUILD
     THEN spc' = "stop" /\ UNCHANGED <<cmds, exitCode>>
     ELSE /\ \E ok \in BOOLEAN :
               cmds' = Append(cmds, IF ok THEN Cmd("compose build --no-cache", SERVICE_NAME)
                                    ELSE CmdIgnored("compose build --no-cache", SERVICE_NAME))
          /\ spc' = "stop" /\ UNCHANGED exitCode
  /\ UNCHANGED <<kvars, fvars, script, args, envFiles, STACK_NAME, containers, prevUp, airflowUp, ENVIRONMENT, WITH_AIRFLOW, CLEAN_VOLUMES,
                 SERVICE_NAME, NO_BUILD, loaded, waitI, out>>

\* docker compose build --no-cache "$SERVICE_NAME" unless --no-build; set -e
\* ends the script on a failed build before $? is tested.
RestartBuild ==
  /\ script = "restart" /\ spc = "build"
  /\ IF NO_BUILD
     THEN spc' = "stop" /\ UNCHANGED <<cmds, exitCode>>
     ELSE RunOrDie("compose build --no-cache", SERVICE_NAME, "stop")
  /\ UNCHANGED <<kvars, fvars, script, args, envFiles, STACK_NAME, containers, prevUp, airflowUp, ENVIRONMENT, WITH_AIRFLOW, CLEAN_VOLUMES,
                 SERVICE_NAME, NO_BUILD, loaded, waitI, out>>

\* docker compose stop "$SERVICE_NAME", under set -e
RestartStop ==
  /\ script = "restart" /\ spc = "stop"
  /\ RunOrDie("compose stop", SERVICE_NAME, "rm")
  /\ UNCHANGED <<kvars, fvars, script, args, envFiles, STACK_NAME, containers, prevUp, airflowUp, ENVIRONMENT, WITH_AIRFLOW, CLEAN_VOLUMES,
                 SERVICE_NAME, NO_BUILD, loaded, waitI, out>>

\* docker compose rm -f "$SERVICE_NAME" 2>/dev/null || true
RestartRm ==
  /\ script = "restart" /\ spc = "rm"
  /\ Issue("compose rm -f", SERVICE_NAME)
  /\ spc' = "up"
  /\ UNCHANGED <<kvars, fvars, script, args, envFiles, STACK_NAME, containers, prevUp, airflowUp, ENVIRONMENT, WITH_AIRFLOW, CLEAN_VOLUMES,
                 SERVICE_NAME, NO_BUILD, loaded, waitI, out, exitCode>>

\* docker compose up -d "$SERVICE_NAME", under set -e
RestartUp ==
  /\ script = "restart" /\ spc = "up"
  /\ RunOrDie("compose up -d", SERVICE_NAME, "status")
  /\ UNCHANGED <<kvars, fvars, script, args, envFiles, STACK_NAME, containers, prevUp, airflowUp, ENVIRONMENT, WITH_AIRFLOW, CLEAN_VOLUMES,
                 SERVICE_NAME, NO_BUILD, loaded, waitI, out>>

\* docker compose ps "$SERVICE_NAME", under set -e
RestartStatus ==
  /\ script = "restart" /\ spc = "status"
  /\ RunOrDie("compose ps", SERVICE_NAME, "logs")
  /\ UNCHANGED <<kvars, fvars, script, args, envFiles, STACK_NAME, containers, prevUp, airflowUp, ENVIRONMENT, WITH_AIRFLOW, CLEAN_VOLUMES,
                 SERVICE_NAME, NO_BUILD, loaded, waitI, out>>

\* docker compose logs --tail 10 "$SERVICE_NAME", under set -e, and the end
RestartLogs ==
  /\ script = "restart" /\ spc = "logs"
  /\ RunLastOrDie("compose logs --tail 10", SERVICE_NAME)
  /\ UNCHANGED <<kvars, fvars, script, args, envFiles, STACK_NAME, containers, prevUp, airflowUp, ENVIRONMENT, WITH_AIRFLOW, CLEAN_VOLUMES,
                 SERVICE_NAME, NO_BUILD, loaded, waitI, out>>

\* ------------------------------------------------------------ invocations
MaxArgs == 3

ArgLists(tokens, n) == UNION {[1..k -> tokens] : k \in 0..n}

StartTokens == Environments \cup AirflowFlags \cup {"qa"}
StopTokens == Environments \cup AirflowFlags \cup CleanFlags \cup {"qa"}
RestartTokens == {"dev", "prod", "qa", "backend", "kong.db", "mailcatcher", "--no-build"}

EnvFileNames == {ENV_FILE(e) : e \in Environments}

\* The bootstrapper is not running; only the gateway's readiness matters.
\* The project directories a script is run in: without environment files,
\* with the one of dev only, with all of them.
EnvFileSets == {{}, {ENV_FILE("dev")}, EnvFileNames}

KongIdle ==
  /\ kServices = {} /\ kRoutes = {} /\ kPlugins = {}
  /\ KENV = "local"
  /\ kpc = "done"
  /\ opIdx = 1
  /\ attempt = 0
  /\ kReady = "pending"
  /\ run = 1
  /\ call = NoCall
  /\ errs = {}
  /\ before = [services |-> {}, routes |-> {}, plugins |-> {}]
  /\ snap = [services |-> {}, routes |-> {}, plugins |-> {}]
  /\ createdRoutes = {}
  /\ abnormal = FALSE
  /\ others = 0

\* A lifecycle script is started. Requests the control plane leaves unanswered
\* while it is reachable are studied under SpecKong; here a request fails only
\* when the control plane is down.
InitLifecycle ==
  /\ KongIdle
  /\ faults = MaxFaults
  /\ FrontendIdle
  /\ script \in {"start", "stop", "restart"}
  /\ args \in (CASE script = "start" -> ArgLists(StartTokens, 2)
                 [] script = "stop" -> ArgLists(StopTokens, MaxArgs)
                 [] script = "restart" -> ArgLists(RestartTokens, 3))
  /\ kongUp \in (IF script = "start" THEN BOOLEAN ELSE {FALSE})
  /\ envFiles \in EnvFileSets
  /\ prevUp \in (IF script = "start" THEN BOOLEAN ELSE {TRUE})
  /\ airflowUp \in (IF script = "stop" THEN BOOLEAN ELSE {FALSE})
  /\ STACK_NAME = "S"
  /\ containers \in (IF script = "start" THEN {{}, Leftovers} ELSE {{}})
  /\ spc = "parse"
  /\ ENVIRONMENT = ""
  /\ WITH_AIRFLOW = FALSE
  /\ CLEAN_VOLUMES = FALSE
  /\ SERVICE_NAME = ""
  /\ NO_BUILD = FALSE
  /\ loaded = FALSE
  /\ waitI = 0
  /\ cmds = <<>>
  /\ out = {}
  /\ exitCode = 0

NextLifecycle ==
  \/ StartParse
  \/ StartEnvFile
  \/ StartLoadEnv
  \/ StartStopExisting
  \/ StartCleanup
  \/ StartUp
  \/ StartKongCheck
  \/ StartKongWait
  \/ GatewayComesUp
  \/ StartKongInit
  \/ ReadinessPoll
  \/ KongComesUp
  \/ ServiceLookup
  \/ ServiceCreate
  \/ RouteLookup
  \/ RouteCreate
  \/ PluginLookup
  \/ PluginCreate
  \/ StartKongInitReturns
  \/ StartStatus
  \/ StopParse
  \/ StopLoadEnv
  \/ StopDown
  \/ RestartParse
  \/ RestartLoadEnv
  \/ RestartValidate
  \/ RestartBuild
  \/ RestartStop
  \/ RestartRm
  \/ RestartUp
  \/ RestartStatus
  \/ RestartLogs

SpecLifecycle == InitLifecycle /\ [][NextLifecycle]_vars

\* start.sh at its leftover cleanup, on any host and with the environment
\* file defining STACK_NAME or not.
InitCleanup ==
  /\ KongIdle
  /\ faults = MaxFaults
  /\ kongUp = FALSE
  /\ FrontendIdle
  /\ script = "start"
  /\ args = <<>>
  /\ envFiles = EnvFileNames
  /\ prevUp = FALSE
  /\ airflowUp = FALSE
  /\ STACK_NAME \in {"S", ""}
  /\ containers \in SUBSET HostContainers
  /\ spc = "cleanup"
  /\ ENVIRONMENT = "dev"
  /\ WITH_AIRFLOW = FALSE
  /\ CLEAN_VOLUMES = FALSE
  /\ SERVICE_NAME = ""
  /\ NO_BUILD = FALSE
  /\ loaded = TRUE
  /\ waitI = 0
  /\ cmds = <<Cmd("compose ps -q", "")>>
  /\ out = {}
  /\ exitCode = 0

NextCleanup ==
  \/ StartCleanup
  \/ StartUp

SpecCleanup == InitCleanup /\ [][NextCleanup]_vars

\* ------------------------------------------- claims on the lifecycle scripts
Exited == spc = "exited"
RestartCommands == {"compose build --no-cache", "compose stop", "compose rm -f", "compose up -d"}

\* C3: start.sh given a first argument that is not dev, staging, prod or an
\* airflow flag never gets past its argument validation: it exits with
\* status 1 and has issued no orchestrator command.
C3_InvalidEnvironmentExits1 ==
  (script = "start" /\ Arg(1) # "" /\ Arg(1) \notin Environments \cup AirflowFlags)
    => /\ spc = "parse" \/ (Exited /\ exitCode = 1)
       /\ cmds = <<>>

\* C3 witness: start.sh qa has exited with status 1.
C3_Witness ==
  script = "start" /\ Arg(1) = "qa" /\ Exited /\ exitCode = 1 /\ cmds = <<>>

\* C4: start.sh given a valid environment whose environment file is missing
\* stops at the file check: it exits non-zero with a message naming the file,
\* having loaded no variable and issued no orchestrator command.
C4_MissingEnvFileExits ==
  (/\ script = "start" /\ spc # "parse"
   /\ ENVIRONMENT \in Environments
   /\ (".env." \o ENVIRONMENT) \notin envFiles)
    => /\ \/ spc = "envfile"
          \/ /\ Exited /\ exitCode # 0
             /\ <<"env-file-missing", ".env." \o ENVIRONMENT>> \in out
       /\ ~loaded
       /\ cmds = <<>>

\* C4 witness: start.sh staging has exited naming .env.staging.
C4_Witness ==
  /\ script = "start" /\ Exited /\ exitCode = 1
  /\ ENVIRONMENT = "staging"
  /\ <<"env-file-missing", ".env.staging">> \in out

\* C6: restart.sh given a service name that is not a service of the resolved
\* compose configuration issues no build, stop, rm or up command, and exits
\* non-zero having listed the configuration's services.
C6_UnknownServiceRejected ==
  (/\ script = "restart" /\ spc \notin {"parse", "load"}
   /\ SERVICE_NAME # ""
   /\ SERVICE_NAME \notin ComposeServices(ENVIRONMENT))
    => /\ \A k \in 1..Len(cmds) : cmds[k].c \notin RestartCommands
       /\ spc \in {"validate", "exited"}
       /\ Exited => /\ exitCode # 0
                     /\ \A l \in ComposeServices(ENVIRONMENT) :
                           <<"available-service", l>> \in out

\* The environment argument as each script's usage line defines it: the
\* first argument, dev when absent; start.sh and stop.sh accept an airflow
\* flag in its place (start.sh only when the second argument is not an
\* airflow flag as well); restart.sh takes a first argument that is no
\* environment as the service name.
EnvArgInvalid ==
  CASE script = "start" ->
         /\ Arg(1) # "" /\ Arg(1) \notin Environments
         /\ ~(Arg(1) \in AirflowFlags /\ Arg(2) \notin AirflowFlags)
    [] script = "stop" ->
         Arg(1) # "" /\ Arg(1) \notin Environments \cup AirflowFlags
    [] OTHER -> FALSE

\* C7 as stated: a script exits with 1 when its environment argument is
\* invalid and with 0 in every other case.
C7_ExitOneOnlyOnInvalidEnvironment ==
  Exited => exitCode = (IF EnvArgInvalid THEN 1 ELSE 0)

\* The restart.sh invocation names a service of the compose configuration.
RestartServiceKnown ==
  /\ SERVICE_NAME # ""
  /\ ServiceListed(ComposeServices(ENVIRONMENT), SERVICE_NAME)

\* A configuration error: the cases in which a script exits with status 1
\* before any command that changes the stack.
ConfigError ==
  \/ EnvArgInvalid
  \/ script = "start" /\ (".env." \o ENVIRONMENT) \notin envFiles
  \/ script = "restart" /\ ~RestartServiceKnown

CommandDied == cmds # <<>> /\ cmds[Len(cmds)].fatal

\* C7 amended: a script exits with 1 on an invalid environment argument, and
\* also when start.sh misses its environment file or restart.sh has no
\* service name or one its validation rejects; otherwise it exits with a
\* non-zero status when a command run under set -e fails, and with 0 when
\* none does.
C7_ExitStatus ==
  Exited => /\ ConfigError => exitCode = 1
            /\ (~ConfigError /\ CommandDied) => exitCode \in DockerFailCodes
            /\ (~ConfigError /\ ~CommandDied) => exitCode = 0

\* C7 witness: start.sh was given a valid environment and still exited with
\* status 1, at the environment file check.
C7_Witness ==
  /\ script = "start" /\ ~EnvArgInvalid
  /\ Exited /\ exitCode = 1
  /\ cmds = <<>>

\* A step of the bootstrapper's readiness loop, and of start.sh's gateway wait.
BootstrapPollStep == kpc = "ready" /\ (attempt' # attempt \/ kpc' # kpc)
StartPollStep == spc = "kongwait" /\ (waitI' # waitI \/ spc' # spc)

\* C11: both readiness loops are bounded and stop at the first good answer.
\* While the bootstrapper polls it has made fewer than max_attempts polls and
\* each failed poll counts; a poll answered "database reachable" ends the
\* loop; start.sh's wait is in its 1st..60th iteration and each failed poll
\* moves to the next.
C11_ReadinessGateBounded ==
  /\ [](kpc = "ready" => attempt \in 0..(max_attempts - 1))
  /\ [](spc = "kongwait" => waitI \in 1..max_attempts)
  /\ [][BootstrapPollStep =>
          /\ (kongUp => kpc' = "lookup")
          /\ (kpc' = "ready" => attempt' = attempt + 1)]_vars
  /\ [][StartPollStep =>
          /\ (kongUp => spc' = "konginit")
          /\ (spc' = "kongwait" => waitI' = waitI + 1)]_vars

\* start.sh's wait and then the bootstrapper's loop both ran out of polls.
C11_Witness ==
  /\ script = "start"
  /\ <<"kong-wait-timeout", "">> \in out
  /\ kReady = "timeout"
  /\ kpc = "lookup"

LastOp == ConfigSequence(KENV)[Len(ConfigSequence(KENV))]

\* C12: a readiness timeout is not fatal. After the timeout warning the
\* bootstrapper goes through the configuration sequence call by call, each
\* call making its lookup request, and ends only after the last declared
\* call; start.sh invokes the bootstrapper when its own wait ends, timed out
\* or not.
C12_TimeoutNotFatal ==
  /\ []((kReady = "timeout" /\ kpc = "done") =>
          /\ opIdx = Len(ConfigSequence(KENV))
          /\ call.done
          /\ <<call.fn, call.service, call.name>> = <<LastOp.fn, LastOp.service, LastOp.name>>)
  /\ [][(kReady = "timeout" /\ kReady' = "timeout" /\ opIdx' # opIdx) =>
          /\ opIdx' = opIdx + 1
          /\ call'.done
          /\ <<call'.fn, call'.service, call'.name>> = <<CurOp.fn, CurOp.service, CurOp.name>>]_vars
  /\ [][(StartPollStep /\ spc' # "kongwait") => spc' = "konginit"]_vars

\* A run that timed out, went through the whole sequence against a control
\* plane that stayed down, and logged a failure for every create.
C12_Witness ==
  /\ kReady = "timeout"
  /\ kpc = "done"
  /\ ~kongUp
  /\ Cardinality(errs) >= 8
  /\ kServices = {} /\ kRoutes = {} /\ kPlugins = {}

\* A create request was issued in this step and its answer shows neither an
\* id nor a uniqueness conflict.
CreateFailed ==
  /\ kpc = "create"
  /\ call'.issued
  /\ ~GrepQ(call'.resp, "id")
  /\ ~GrepQ(call'.resp, "UNIQUE violation")

\* C13: a failed create is logged and skipped. The step of a failed create
\* logs the entity and passes control to the next declared call (or ends the
\* run after the last); control moves through the sequence one call at a
\* time, each call making its lookup; a run ends only after the last call.
C13_CreateFailureSkipped ==
  /\ [][CreateFailed =>
          /\ CurOp.name \in errs'
          /\ IF opIdx < Len(ConfigSequence(KENV))
             THEN opIdx' = opIdx + 1 /\ kpc' = "lookup"
             ELSE kpc' = "done"]_vars
  /\ [][(opIdx' # opIdx /\ run' = run /\ kpc' # "ready") =>
          /\ opIdx' = opIdx + 1
          /\ call'.done
          /\ <<call'.fn, call'.service, call'.name>> = <<CurOp.fn, CurOp.service, CurOp.name>>]_vars
  /\ []((kpc = "done" /\ script = "none") =>
          /\ opIdx = Len(ConfigSequence(KENV))
          /\ <<call.fn, call.service, call.name>> = <<LastOp.fn, LastOp.service, LastOp.name>>)

\* A finished run against a reachable control plane that logged a failure and
\* left the backend service missing while the later frontend service exists.
C13_Witness ==
  /\ kpc = "done" /\ run = 1 /\ kongUp /\ kReady = "ready"
  /\ errs # {}
  /\ ~ServiceExistsIn(kServices, "S-backend")
  /\ ServiceExistsIn(kServices, "S-frontend")

\* The positions in cmds of the commands with words c.
Positions(c) == {k \in 1..Len(cmds) : cmds[k].c = c}
\* The step of start.sh that issues up -d --build.
UpStep == script = "start" /\ spc = "up" /\ cmds' # cmds
TeardownThenRemovalThenUp ==
  /\ Positions("docker ps -a") # {}
  /\ \A d \in Positions("compose down --remove-orphans"), r \in Positions("docker ps -a") : d < r

BootstrapStep == script = "start" /\ spc = "konginit" /\ cmds' # cmds

\* C15: start.sh runs the bootstrapper only after up -d --build has returned
\* successfully, after compose ps kong has reported the container Up, and
\* after the gateway wait has ended with the gateway ready or with its polls
\* used up; no step of the bootstrapper happens before that.
C15_BootstrapAfterWait ==
  /\ [][BootstrapStep =>
          /\ \E u \in Positions("compose up -d --build"), c \in Positions("compose ps kong") :
               u < c /\ cmds[u].ok
          /\ <<"kong-not-started", "">> \notin out
          /\ (kongUp \/ <<"kong-wait-timeout", "">> \in out)]_vars
  /\ []((script = "start" /\ kpc # "done") => Positions("init-kong.sh") # {})
  /\ []((script = "start" /\ spc \in {"kongcheck", "kongwait", "konginit"}) =>
          Positions("init-kong.sh") = {})

\* start.sh ran to its end with the bootstrapper run after a wait that found
\* the gateway ready.
C15_Witness ==
  /\ script = "start" /\ spc = "exited" /\ exitCode = 0
  /\ Positions("init-kong.sh") # {}
  /\ <<"kong-wait-timeout", "">> \notin out
  /\ kReady = "ready" /\ kpc = "done"

\* The order the file list is meant to have: base, gateway, the workflow
\* engine's file when enabled, the environment's override last.
OrderedFiles(e, airflow) ==
  <<"compose.yml", "compose.kong.yml">>
  \o (IF airflow THEN <<"compose.airflow.yml">> ELSE <<>>)
  \o <<COMPOSE_FILE(e)>>

\* C16: every docker compose command of start.sh and stop.sh is issued with
\* the file list base, gateway, workflow-engine file when enabled, and the
\* environment's override last.
C16_ComposeFileOrder ==
  script \in {"start", "stop"} =>
    \A k \in 1..Len(cmds) :
      cmds[k].c \notin PlainCommands => cmds[k].files = OrderedFiles(ENVIRONMENT, WITH_AIRFLOW)

\* The script has settled on a valid environment whose file does not exist.
EnvFileMissing ==
  /\ script \in {"start", "stop", "restart"} /\ spc # "parse"
  /\ ENVIRONMENT \in Environments
  /\ ENV_FILE(ENVIRONMENT) \notin envFiles

\* C19 (as claimed): with the environment file missing, each of start.sh,
\* stop.sh and restart.sh issues no orchestrator command and exits non-zero.
C19_MissingEnvFileFatal ==
  EnvFileMissing => (cmds = <<>> /\ (Exited => exitCode # 0))

\* C19 (amended): with the environment file missing no script loads any
\* variable; start.sh issues no command and exits with status 1; stop.sh goes
\* on to its down command, and restart.sh, given a service its validation
\* accepts, goes on to its commands.
C19_MissingEnvFileFatalInStart ==
  EnvFileMissing =>
    /\ ~loaded
    /\ script = "start" => (cmds = <<>> /\ (Exited => exitCode = 1))
    /\ (script = "stop" /\ Exited) => Positions("compose down") \cup Positions("compose down -v") # {}
    /\ (script = "restart" /\ Exited /\ RestartServiceKnown) => cmds # <<>>

\* stop.sh ended with status 0 after its down, the environment file missing.
C19_Witness ==
  /\ script = "stop" /\ EnvFileMissing
  /\ Exited /\ exitCode = 0
  /\ Positions("compose down") # {}

\* ============================================================ the frontend
MaxReq == 2
MaxLogins == 1

Slots == 1..MaxReq
\* The HTTP statuses and error details the backend answers with.
Statuses == {200, 401, 403, 404}
Details == {"Not authenticated", "User not found", "The user not found", ""}
RequestKinds == {"files", "upload", "business-unit", "download"}
\* The requests made through the generated client, and those made with fetch.
ClientKinds == {"files", "business-unit"}
FetchKinds == {"upload", "download"}
\* The requests React Query runs as queries; the others it runs as mutations,
\* except the download, which is a plain click handler.
QueryKinds == {"files", "currentUser", "users"}

TokenOf(n) == "token-" \o ToString(n)

\* `Bearer ${token}`
Bearer(tok) == "Bearer " \o tok

\* { ...headers, [name]: value }
SetHeader(headers, name, value) ==
  {h \in headers : h[1] # name} \cup {<<name, value>>}

\* (variant) the interceptor returns the Authorization header alone
InterceptorDropsHeaders(options, tok) ==
  IF tok # NoToken
  THEN [options EXCEPT !.headers = {<<"Authorization", Bearer(tok)>>}]
  ELSE options

\* The request interceptor, where tok is localStorage.getItem("access_token").
Interceptor(options, tok) ==
  IF tok # NoToken
  THEN [options EXCEPT !.headers = SetHeader(options.headers, "Authorization", Bearer(tok))]
  ELSE options

\* headers: token ? { Authorization: `Bearer ${token}` } : {}
FetchHeaders(tok) ==
  IF tok # NoToken THEN {<<"Authorization", Bearer(tok)>>} ELSE {}

\* The options the generated client builds for a request before it runs the
\* request interceptors.
ClientOptions(kind) ==
  IF kind = "files"
  THEN [method |-> "GET", headers |-> {<<"Accept", "application/json">>},
        credentials |-> "same-origin"]
  ELSE [method |-> "POST",
        headers |-> {<<"Content-Type", "application/json">>},
        credentials |-> "same-origin"]

\* The options of the two fetch calls, headers apart.
FetchOptions(kind) ==
  IF kind = "upload"
  THEN [method |-> "POST", headers |-> {}, credentials |-> "same-origin"]
  ELSE [method |-> "GET", headers |-> {}, credentials |-> "include"]

\* The options a request of this kind leaves with when tok is stored.
SentOptions(kind, tok) ==
  IF kind \in ClientKinds
  THEN Interceptor(ClientOptions(kind), tok)
  ELSE [FetchOptions(kind) EXCEPT !.headers = FetchHeaders(tok)]

\* detail?.toLowerCase().includes("user not found")
LowerIncludesUserNotFound(d) == d \in {"User not found", "The user not found"}

\* const status = err.status || err.response?.status
HandlerStatus(err) == err.status
\* const detail = err.detail || err.message
HandlerDetail(err) == IF err.detail \notin {Undefined, ""} THEN err.detail ELSE err.message

\* handleApiError: whether it removes the token and sets location to /login
HandlerClears(err) ==
  \/ HandlerStatus(err) # UndefinedStatus /\ HandlerStatus(err) \in {401, 403}
  \/ HandlerDetail(err) = "User not found"
  \/ HandlerDetail(err) # Undefined /\ LowerIncludesUserNotFound(HandlerDetail(err))

\* throw new Error(error.detail || "Upload failed")
UploadError(detail) ==
  [status |-> UndefinedStatus, detail |-> Undefined,
   message |-> IF detail = "" THEN "Upload failed" ELSE detail]

\* throw response.error: the error the generated client hands back, either
\* the parsed error body alone or an object that also carries the status.
QueryError(status, detail, withStatus) ==
  [status |-> IF withStatus THEN status ELSE UndefinedStatus,
   detail |-> detail, message |-> Undefined]

\* The ApiError a service method of the generated client rejects with.
ServiceError(status, detail) ==
  [status |-> status, detail |-> Undefined,
   message |-> CASE status = 401 -> "Unauthorized"
                 [] status = 403 -> "Forbidden"
                 [] status = 404 -> "Not Found"
                 [] OTHER -> "Generic Error"]

\* isLoggedIn()
isLoggedIn == token # NoToken

\* An error thrown by a queryFn or a mutationFn is waiting for its cache's
\* onError. React Query calls it in the chain of promise reactions the throw
\* starts, which the event loop runs to its end before it delivers another
\* response or another click.
Handling == \E r \in Slots : reqs[r].st = "thrown"

\* login: a successful loginLoginAccessToken stores the new token, and the
\* mutation's onSuccess navigates to /.
LoginSucceeds ==
  /\ ~Handling
  /\ logins < MaxLogins
  /\ logins' = logins + 1
  /\ token' = TokenOf(logins + 1)
  /\ location' = "/"
  /\ UNCHANGED <<kvars, lvars, reqs>>
  /\ effects' = {}

\* (variant) the login stores a token before it looks at the error
LoginFailsStoring ==
  /\ ~Handling
  /\ \E r \in Slots, status \in Statuses \ {200}, detail \in Details \ {""},
        withStatus \in BOOLEAN :
       /\ reqs[r].st = "free"
       /\ \A q \in Slots : q < r => reqs[q].st # "free"
       /\ reqs' = [reqs EXCEPT ![r] = [FreeSlot EXCEPT !.kind = "login", !.st = "thrown",
                                                        !.status = status,
                                                        !.err = QueryError(status, detail, withStatus)]]
  /\ token' = TokenOf(logins + 1)
  /\ UNCHANGED <<kvars, lvars, location, logins>>
  /\ effects' = {}

\* login rejected: loginLoginAccessToken hands back an error, login throws it
\* before it reaches setItem, and the mutation waits for its cache's onError.
LoginFails ==
  /\ ~Handling
  /\ \E r \in Slots, status \in Statuses \ {200}, detail \in Details \ {""},
        withStatus \in BOOLEAN :
       /\ reqs[r].st = "free"
       /\ \A q \in Slots : q < r => reqs[q].st # "free"
       /\ reqs' = [reqs EXCEPT ![r] = [FreeSlot EXCEPT !.kind = "login", !.st = "thrown",
                                                        !.status = status,
                                                        !.err = QueryError(status, detail, withStatus)]]
  /\ UNCHANGED <<kvars, lvars, token, location, logins>>
  /\ effects' = {}

\* logout
Logout ==
  /\ ~Handling
  /\ token # NoToken
  /\ token' = NoToken
  /\ location' = "/login"
  /\ UNCHANGED <<kvars, lvars, logins, reqs>>
  /\ effects' = {}

\* A request is issued: the files query, the upload mutation, the
\* business-unit creation or a download. A query is not started while the
\* query of its key is fetching or waiting for a retry.
IssueRequest ==
  /\ ~Handling
  /\ location # "/login"
  /\ \E r \in Slots, kind \in RequestKinds :
       /\ reqs[r].st = "free"
       /\ kind \in QueryKinds => \A q \in Slots : reqs[q].kind # kind
       /\ \A q \in Slots : q < r => reqs[q].st # "free"
       /\ reqs' = [reqs EXCEPT ![r] =
                    [FreeSlot EXCEPT !.kind = kind, !.st = "sent", !.sent = token,
                                     !.base = IF kind \in ClientKinds THEN ClientOptions(kind)
                                              ELSE FetchOptions(kind),
                                     !.options = SentOptions(kind, token)]]
  /\ UNCHANGED <<kvars, lvars, token, location, logins>>
  /\ effects' = {}

\* (variant) onSettled is written as a second onSuccess
MutationCallbacksOnSuccessOnly(kind, ok) ==
  IF ok /\ kind \in {"upload", "business-unit"}
  THEN {"form.reset", "setIsOpen(false)",
        IF kind = "upload" THEN "invalidate files" ELSE "invalidate business-units"}
  ELSE {}

\* What the callbacks of a settled mutation do besides showing a toast:
\* onSuccess when it succeeded, then onSettled.
MutationCallbacks(kind, ok) ==
  (IF ok /\ kind \in {"upload", "business-unit"}
   THEN {"form.reset", "setIsOpen(false)"} ELSE {})
  \cup (CASE kind = "upload" -> {"invalidate files"}
          [] kind = "business-unit" -> {"invalidate business-units"}
          [] OTHER -> {})

\* The upload's fetch resolves: the rest of mutationFn, and on success the
\* mutation's callbacks.
UploadSettles ==
  /\ ~Handling
  /\ \E r \in Slots, status \in Statuses, detail \in Details :
       /\ reqs[r].st = "sent" /\ reqs[r].kind = "upload"
       /\ (status = 200) = (detail = "")
       /\ IF status = 200
          THEN /\ reqs' = [reqs EXCEPT ![r] = Finished(@, status)]
               /\ effects' = MutationCallbacks("upload", TRUE)
               /\ UNCHANGED <<token, location>>
          ELSE LET auth == status = 401 \/ status = 403
               IN /\ token' = IF auth THEN NoToken ELSE token
                  /\ location' = IF auth THEN "/login" ELSE location
                  /\ reqs' = [reqs EXCEPT ![r].st = "thrown", ![r].status = status,
                                          ![r].err = UploadError(detail),
                                          ![r].clears = IF auth THEN @ + 1 ELSE @,
                                          ![r].navs = IF auth THEN @ + 1 ELSE @]
                  /\ effects' = {}
  /\ UNCHANGED <<kvars, lvars, logins>>

\* retry of a query that sets none, with a QueryClient that sets no
\* defaultOptions: the number of times a failed query is run again.
DefaultRetry == 3

\* The files request resolves: the rest of queryFn, and the query's retry.
FilesQuerySettles ==
  /\ ~Handling
  /\ \E r \in Slots, status \in Statuses, detail \in Details, withStatus \in BOOLEAN :
       /\ reqs[r].st = "sent" /\ reqs[r].kind = "files"
       /\ (status = 200) = (detail = "")
       /\ reqs' = IF status = 200
                  THEN [reqs EXCEPT ![r] = Finished(@, status)]
                  ELSE IF reqs[r].failures < DefaultRetry
                  THEN [reqs EXCEPT ![r].st = "retry", ![r].status = status,
                                    ![r].failures = @ + 1, ![r].sent = NoToken,
                                    ![r].base = NoOptions, ![r].options = NoOptions]
                  ELSE [reqs EXCEPT ![r].st = "thrown", ![r].status = status,
                                    ![r].err = QueryError(status, detail, withStatus)]
  /\ UNCHANGED <<kvars, lvars, token, location, logins>>
  /\ effects' = {}

\* The retry delay of a failed query is over: its queryFn runs again.
RetryRequest ==
  /\ ~Handling
  /\ \E r \in Slots :
       /\ reqs[r].st = "retry"
       /\ reqs' = [reqs EXCEPT ![r].st = "sent", ![r].sent = token,
                               ![r].status = UndefinedStatus,
                               ![r].base = ClientOptions(reqs[r].kind),
                               ![r].options = SentOptions(reqs[r].kind, token)]
  /\ UNCHANGED <<kvars, lvars, token, location, logins>>
  /\ effects' = {}

\* BusinessUnitsService.createBusinessUnit resolves or rejects.
BusinessUnitSettles ==
  /\ ~Handling
  /\ \E r \in Slots, status \in Statuses, detail \in Details :
       /\ reqs[r].st = "sent" /\ reqs[r].kind = "business-unit"
       /\ (status = 200) = (detail = "")
       /\ reqs' = IF status = 200
                  THEN [reqs EXCEPT ![r] = Finished(@, status)]
                  ELSE [reqs EXCEPT ![r].st = "thrown", ![r].status = status,
                                    ![r].err = ServiceError(status, detail)]
       /\ effects' = IF status = 200 THEN MutationCallbacks("business-unit", TRUE)
                     ELSE {}
  /\ UNCHANGED <<kvars, lvars, token, location, logins>>

\* The download's fetch resolves: the rest of handleDownload, which catches
\* its own error.
DownloadSettles ==
  /\ ~Handling
  /\ \E r \in Slots, status \in Statuses :
       /\ reqs[r].st = "sent" /\ reqs[r].kind = "download"
       /\ LET auth == status = 401 \/ status = 403
          IN /\ token' = IF auth THEN NoToken ELSE token
             /\ location' = IF auth THEN "/login" ELSE location
             /\ reqs' = [reqs EXCEPT ![r] = [Finished(@, status) EXCEPT
                                              !.clears = IF auth THEN @ + 1 ELSE @,
                                              !.navs = IF auth THEN @ + 1 ELSE @]]
  /\ UNCHANGED <<kvars, lvars, logins>>
  /\ effects' = {}

\* (variant) no onError is installed on the cache
NoHandler(err) == FALSE

\* queryCache: new QueryCache({ onError: handleApiError })
QueryCacheOnError(err) == HandlerClears(err)
\* mutationCache: new MutationCache({ onError: handleApiError })
MutationCacheOnError(err) == HandlerClears(err)

\* The query cache's or the mutation cache's onError: handleApiError, and
\* after it the callbacks of a failed mutation.
CacheOnError ==
  /\ \E r \in Slots :
       /\ reqs[r].st = "thrown"
       /\ LET clear == IF reqs[r].kind \in QueryKinds
                       THEN QueryCacheOnError(reqs[r].err)
                       ELSE MutationCacheOnError(reqs[r].err)
          IN /\ token' = IF clear THEN NoToken ELSE token
             /\ location' = IF clear THEN "/login" ELSE location
             /\ reqs' = [reqs EXCEPT ![r] = [Finished(@, @.status) EXCEPT
                                              !.clears = IF clear THEN @ + 1 ELSE @,
                                              !.navs = IF clear THEN @ + 1 ELSE @]]
             /\ effects' = IF reqs[r].kind \in QueryKinds THEN {}
                           ELSE MutationCallbacks(reqs[r].kind, FALSE)
  /\ UNCHANGED <<kvars, lvars, logins>>

InitFrontend ==
  /\ KongIdle
  /\ faults = 0
  /\ kongUp = TRUE
  /\ LifecycleIdle
  /\ token \in {NoToken, TokenOf(0)}
  /\ location = IF token = NoToken THEN "/login" ELSE "/"
  /\ logins = 0
  /\ reqs = [r \in Slots |-> FreeSlot]
  /\ effects = {}

NextFrontend ==
  \/ LoginSucceeds
  \/ LoginFails
  \/ Logout
  \/ IssueRequest
  \/ UploadSettles
  \/ FilesQuerySettles
  \/ RetryRequest
  \/ BusinessUnitSettles
  \/ DownloadSettles
  \/ CacheOnError

SpecFrontend == InitFrontend /\ [][NextFrontend]_vars

\* --------------------------------------------------------- the admin route
\* The details the backend answers the current-user request with.
CurrentUserDetails ==
  {"Could not validate credentials", "Not authenticated", "Token not authenticated",
   "User not found", ""}

\* detail?.includes(part)
Includes(detail, part) ==
  \/ detail = part
  \/ detail = "Token not authenticated" /\ part = "not authenticated"

\* useAuth's currentUser queryFn: the errors it treats as authentication
\* failures.
QueryFnClears(status, detail) ==
  \/ status = 401 \/ status = 403
  \/ detail = "Could not validate credentials"
  \/ Includes(detail, "not authenticated")
  \/ Includes(detail, "Not authenticated")

\* The admin route's beforeLoad: the errors it removes the token for.
GuardClears(detail) ==
  \/ detail = "Could not validate credentials"
  \/ Includes(detail, "not authenticated")

\* The currentUser query runs (enabled: isLoggedIn(), retry: false).
CurrentUserSettles ==
  /\ ~Handling
  /\ isLoggedIn
  /\ \E r \in Slots, status \in Statuses, detail \in CurrentUserDetails, withStatus \in BOOLEAN :
       /\ reqs[r].st = "free"
       /\ \A q \in Slots : q < r => reqs[q].st # "free"
       /\ (status = 200) = (detail = "")
       /\ LET slot == [FreeSlot EXCEPT !.kind = "currentUser", !.status = status]
          IN IF status = 200
             THEN /\ reqs' = [reqs EXCEPT ![r] = [slot EXCEPT !.st = "done"]]
                  /\ UNCHANGED <<token, location>>
             ELSE IF QueryFnClears(status, detail)
             THEN /\ token' = NoToken
                  /\ location' = "/login"
                  /\ reqs' = [reqs EXCEPT ![r] =
                               [slot EXCEPT !.st = "done",
                                            !.err = QueryError(status, detail, FALSE),
                                            !.clears = 1,
                                            !.navs = IF location # "/login" THEN 1 ELSE 0]]
             ELSE /\ reqs' = [reqs EXCEPT ![r] =
                               [slot EXCEPT !.st = "thrown",
                                            !.err = QueryError(status, detail, withStatus)]]
                  /\ UNCHANGED <<token, location>>
  /\ UNCHANGED <<kvars, lvars, logins>>
  /\ effects' = {}

\* (variant) beforeLoad lets every signed-in user through
AdminBeforeLoadAnyUser ==
  /\ ~Handling
  /\ \E r \in Slots, status \in Statuses, detail \in CurrentUserDetails, superuser \in BOOLEAN :
       /\ reqs[r].st = "free"
       /\ \A q \in Slots : q < r => reqs[q].st # "free"
       /\ (status = 200) = (detail = "")
       /\ LET slot == [FreeSlot EXCEPT !.kind = "admin", !.st = "done", !.status = status]
          IN IF status # 200
             THEN /\ token' = IF GuardClears(detail) THEN NoToken ELSE token
                  /\ location' = "/login"
                  /\ reqs' = [reqs EXCEPT ![r] =
                               [slot EXCEPT !.err = QueryError(status, detail, FALSE),
                                            !.clears = IF GuardClears(detail) THEN 1 ELSE 0,
                                            !.navs = 1]]
             ELSE /\ location' = "/admin"
                  /\ reqs' = [reqs EXCEPT ![r] =
                               [slot EXCEPT !.data = IF superuser THEN "superuser" ELSE "user"]]
                  /\ UNCHANGED token
  /\ UNCHANGED <<kvars, lvars, logins>>
  /\ effects' = {}

\* Navigation to /admin: beforeLoad asks for the current user and throws a
\* redirect or lets the route load.
AdminBeforeLoad ==
  /\ ~Handling
  /\ \E r \in Slots, status \in Statuses, detail \in CurrentUserDetails, superuser \in BOOLEAN :
       /\ reqs[r].st = "free"
       /\ \A q \in Slots : q < r => reqs[q].st # "free"
       /\ (status = 200) = (detail = "")
       /\ LET slot == [FreeSlot EXCEPT !.kind = "admin", !.st = "done", !.status = status]
          IN IF status # 200
             THEN /\ token' = IF GuardClears(detail) THEN NoToken ELSE token
                  /\ location' = "/login"
                  /\ reqs' = [reqs EXCEPT ![r] =
                               [slot EXCEPT !.err = QueryError(status, detail, FALSE),
                                            !.clears = IF GuardClears(detail) THEN 1 ELSE 0,
                                            !.navs = 1]]
             ELSE /\ location' = IF superuser THEN "/admin" ELSE "/"
                  /\ reqs' = [reqs EXCEPT ![r] =
                               [slot EXCEPT !.data = IF superuser THEN "superuser" ELSE "user",
                                            !.navs = IF superuser THEN 0 ELSE 1]]
                  /\ UNCHANGED token
  /\ UNCHANGED <<kvars, lvars, logins>>
  /\ effects' = {}

\* The admin component is rendered: UsersTableContent asks for the users.
UsersQuerySettles ==
  /\ ~Handling
  /\ location = "/admin"
  /\ \E r \in Slots, status \in Statuses, detail \in Details, withStatus \in BOOLEAN :
       /\ reqs[r].st = "free"
       /\ \A q \in Slots : q < r => reqs[q].st # "free"
       /\ (status = 200) = (detail = "")
       /\ LET slot == [FreeSlot EXCEPT !.kind = "users", !.status = status]
          IN reqs' = [reqs EXCEPT ![r] =
                       IF status = 200
                       THEN [slot EXCEPT !.st = "done"]
                       ELSE [slot EXCEPT !.st = "thrown",
                                         !.err = QueryError(status, detail, withStatus)]]
  /\ UNCHANGED <<kvars, lvars, token, location, logins>>
  /\ effects' = {}

NextAdmin ==
  \/ LoginSucceeds
  \/ AdminBeforeLoad
  \/ CurrentUserSettles
  \/ UsersQuerySettles
  \/ CacheOnError

SpecAdmin == InitFrontend /\ [][NextAdmin]_vars

\* -------------------------------------------------- claims on the frontend
\* C5: a failed request answered with status 401 has, once handled, removed
\* the stored token exactly once and navigated to /login exactly once.
C5_ClearsOncePer401 ==
  \A r \in Slots :
    (reqs[r].st = "done" /\ reqs[r].status = 401)
      => (reqs[r].clears = 1 /\ reqs[r].navs = 1)

\* The values headers holds under name.
HeaderValues(headers, name) == {h[2] : h \in {g \in headers : g[1] = name}}

\* C17: a request in flight that was issued while a token was stored carries
\* exactly one Authorization header, Bearer <that token>, and its method,
\* credentials mode and other headers are those it had without the token;
\* one issued while no token was stored leaves as it was built, without an
\* Authorization header.
C17_BearerTokenAttached ==
  \A r \in Slots :
    reqs[r].st = "sent" =>
      LET req == reqs[r]
          rest(o) == {h \in o.headers : h[1] # "Authorization"}
      IN IF req.sent # NoToken
         THEN /\ HeaderValues(req.options.headers, "Authorization") = {"Bearer " \o req.sent}
              /\ rest(req.options) = rest(req.base)
              /\ req.options.method = req.base.method
              /\ req.options.credentials = req.base.credentials
         ELSE /\ req.options = req.base
              /\ HeaderValues(req.options.headers, "Authorization") = {}

\* A client request and a fetch request in flight, both carrying the token
\* a login of this session stored.
C17_Witness ==
  /\ token = TokenOf(1)
  /\ \E r, q \in Slots :
       /\ reqs[r].st = "sent" /\ reqs[r].kind = "business-unit" /\ reqs[r].sent = TokenOf(1)
       /\ reqs[q].st = "sent" /\ reqs[q].kind = "download" /\ reqs[q].sent = TokenOf(1)

\* The messages the frontend takes for "not authenticated" (useAuth's queryFn).
NotAuthenticatedMessage(d) == d \in {"Not authenticated", "Could not validate credentials"}

\* The cache handler runs for request r in this step.
HandlerStep(r) == reqs[r].st = "thrown" /\ reqs'[r].st = "done"

C20_OnlyOwnTokenCleared ==
  [][\A r \in Slots :
       (/\ reqs[r].st \in {"sent", "thrown"} /\ reqs'[r] # reqs[r]
        /\ token # NoToken /\ token' = NoToken)
         => reqs[r].sent = token]_vars

DevEntitiesCreated ==
  \/ \E rt \in createdRoutes : rt[2] \in {"S-backend-route-path", "S-frontend-route-path"}
  \/ \E sv \in kServices \ before.services :
       sv.name = "S-frontend" /\ sv.url = FRONTEND_URL("local")

\* C22: while and after start.sh runs the bootstrapper, development-only
\* entities have been created only if start.sh was started for dev, and a
\* frontend upstream created for dev is the development one.
C22_DevRoutesOnlyForDev ==
  (script = "start" /\ spc \in {"kongrun", "status", "exited"}) =>
    /\ DevEntitiesCreated => ENVIRONMENT = "dev"
    /\ \A sv \in kServices \ before.services :
         (sv.name = "S-frontend" /\ ENVIRONMENT = "dev") => sv.url = FRONTEND_URL("local")

\* C23: once stop.sh has exited with status 0, no container of the preceding
\* start.sh run is running, with or without the workflow engine.
C23_StopStopsEverything ==
  (script = "stop" /\ spc = "exited" /\ exitCode = 0 /\ cmds # <<>>) => (~prevUp /\ ~airflowUp)

\* C24: when the first argument of stop.sh is a flag, the script has, after
\* parsing, taken dev as the environment, not rejected the invocation, and
\* set the switch of every flag given.
C24_StopEnvironmentOptional ==
  (script = "stop" /\ spc # "parse" /\ Arg(1) \in (CleanFlags \cup AirflowFlags)) =>
    /\ ENVIRONMENT = "dev"
    /\ ~(spc = "exited" /\ exitCode = 1 /\ cmds = <<>>)
    /\ CLEAN_VOLUMES = HasFlag(CleanFlags)
    /\ WITH_AIRFLOW = HasFlag(AirflowFlags)

\* C25: the cleanup removes only stopped containers of this project: the
\* containers of other projects and the running containers that were on the
\* host before it are still there after it.
C25_CleanupRemovesOnlyOwnStopped ==
  [][spc = "cleanup" =>
       \A c \in containers \ containers' :
         c.project = "this" /\ c.status \in {"Created", "Exited"}]_vars

\* C26: in restart.sh, stop is issued only after a build that succeeded or
\* with --no-build and no build at all, rm only after a stop that succeeded,
\* up only after rm; and after a failed build the script has exited with a
\* non-zero status without having issued stop, rm or up.
C26_NoStopAfterFailedBuild ==
  script = "restart" =>
    /\ \A k \in Positions("compose stop") :
         \/ NO_BUILD /\ Positions("compose build --no-cache") = {}
         \/ \E b \in Positions("compose build --no-cache") : b < k /\ cmds[b].ok
    /\ \A r \in Positions("compose rm -f") :
         \E k \in Positions("compose stop") : k < r /\ cmds[k].ok
    /\ \A u \in Positions("compose up -d") : \E r \in Positions("compose rm -f") : r < u
    /\ \A b \in Positions("compose build --no-cache") :
         ~cmds[b].ok =>
           /\ spc = "exited" /\ exitCode # 0
           /\ Positions("compose stop") \cup Positions("compose rm -f")
                \cup Positions("compose up -d") = {}

\* restart.sh has exited on a failed build, the service untouched.
C26_Witness ==
  /\ script = "restart" /\ spc = "exited" /\ exitCode \in DockerFailCodes
  /\ \E b \in Positions("compose build --no-cache") : ~cmds[b].ok /\ b = Len(cmds)

\* C27: for every error answer to the current-user request, the admin guard
\* has removed the token exactly if the currentUser query removes it for that
\* answer.
C27_GuardClassifiesAsQuery ==
  \A r \in Slots :
    (reqs[r].kind = "admin" /\ reqs[r].status # 200) =>
      (reqs[r].clears = 1) = QueryFnClears(reqs[r].status, reqs[r].err.detail)

\* The step of a navigation to /admin through slot r.
GuardStep(r) == reqs[r].st = "free" /\ reqs'[r].kind = "admin"

\* C28: a navigation to /admin whose current-user request failed ends at
\* /login, one answered with a user who is no superuser ends at /, and only
\* one answered with a superuser ends at /admin; the users are asked for only
\* at /admin, which is entered in no other way.
C28_AdminOnlyForSuperuser ==
  [][/\ \A r \in Slots :
          GuardStep(r) =>
            location' = (IF reqs'[r].status # 200 THEN "/login"
                         ELSE IF reqs'[r].data # "superuser" THEN "/"
                         ELSE "/admin")
     /\ (location' = "/admin" /\ location # "/admin") => \E r \in Slots : GuardStep(r)
     /\ \A r \in Slots :
          (reqs[r].st = "free" /\ reqs'[r].kind = "users") => location = "/admin"]_vars

\* A navigation to /admin was sent to /login on an error, and a later one
\* was sent to / for a user who is no superuser.
C28_Witness ==
  /\ location = "/"
  /\ \E r, q \in Slots :
       /\ r < q
       /\ reqs[r].kind = "admin" /\ reqs[r].status # 200
       /\ reqs[q].kind = "admin" /\ reqs[q].data = "user"

\* C29: a request answered 401 or 403 is not run again: no request waits for
\* a retry after such an answer.
C29_AuthFailureNotRetried ==
  \A r \in Slots : reqs[r].st = "retry" => reqs[r].status \notin {401, 403}

\* An upload or a business-unit creation in slot r settles in this step.
MutationSettles(r) ==
  /\ reqs[r].kind \in {"upload", "business-unit"}
  /\ reqs[r].st # "done" /\ reqs'[r].st = "done"

\* C30: when an upload or a business-unit creation settles, the list under
\* its key is invalidated whether it succeeded or failed, and the dialog is
\* closed and the form reset exactly when it succeeded.
C30_InvalidateOnSettle ==
  [][\A r \in Slots :
       MutationSettles(r) =>
         /\ (IF reqs[r].kind = "upload" THEN "invalidate files"
             ELSE "invalidate business-units") \in effects'
         /\ ("setIsOpen(false)" \in effects') = (reqs'[r].status = 200)
         /\ ("form.reset" \in effects') = (reqs'[r].status = 200)]_vars

\* An upload has failed, and its callbacks have invalidated the files and
\* neither closed the dialog nor reset the form.
C30_Witness ==
  /\ effects = {"invalidate files"}
  /\ \E r \in Slots : reqs[r].st = "done" /\ reqs[r].status = 404
====
